---- MODULE Spec2Model ----
(***************************************************************************)
(* Model of sale.py (sale_subscription_asset): the asset-lot date overlap  *)
(* validation of subscription lines (SubscriptionLine._validate_dates),    *)
(* the workflow transitions Subscription.cancel / Subscription.run, and    *)
(* SubscriptionLine.compute_next_consumption_date.                         *)
(*                                                                         *)
(* Dates are day numbers.  SQL NULL / Python None is the integer Null.     *)
(***************************************************************************)
EXTENDS Integers, Sequences, FiniteSets, TLC

\* ---------------------------------------------------------------- bounds
MaxDate == 2
NumLots == 2
NumLines == 2
NumSubs == 2
InMax == 1
NumOpsLots == 1
MaxOffset == 2

Null == 0 - 1
Dates == 0..MaxDate
Lots == 1..NumLots
LineIds == 1..NumLines
SubIds == 1..NumSubs
Txs == {1, 2}

Min(S) == CHOOSE x \in S : \A y \in S : x <= y
Range(s) == {s[k] : k \in 1..Len(s)}

\* ------------------------------------------------------------- variables
VARIABLES
    table,      \* sale.subscription.line rows: line id -> record
    state,      \* sale.subscription state: subscription id -> state
    batch,      \* the ids of the records handed to _validate_dates
    outcome,    \* what the last _validate_dates did: Pass or the raised pair
    tx,         \* per concurrent transaction: position and pending row
    lock,       \* holder of the table lock (0: free)
    pending,    \* a Subscription.cancel waiting for the table lock
    waiting,    \* a Subscription.run waiting for the table lock
    sched       \* one line under compute_next_consumption_date

vars == <<table, state, batch, outcome, tx, lock, pending, waiting, sched>>

\* The subscription a line belongs to (Many2One 'subscription', required).
SubscriptionOf(i) == ((i - 1) % NumSubs) + 1

\* Values of (asset_lot, start_date, end_date) the field domains admit:
\* start_date required, end_date = None or end_date >= start_date.
LineValues ==
    {r \in [asset_lot : Lots \cup {Null}, start_date : Dates,
            end_date : Dates \cup {Null}] :
        r.end_date = Null \/ r.end_date >= r.start_date}

\* ------------------------------------------------ SQL three-valued tests
\* A comparison with NULL is unknown; overlap_where and the join condition
\* only combine comparisons with AND / OR, so unknown selects like FALSE.
SqlEq(a, b) == a # Null /\ b # Null /\ a = b
SqlNe(a, b) == a # Null /\ b # Null /\ a # b
SqlGt(a, b) == a # Null /\ b # Null /\ a > b
SqlGe(a, b) == a # Null /\ b # Null /\ a >= b
SqlLt(a, b) == a # Null /\ b # Null /\ a < b

\* overlap_where of _validate_dates, for a row `line` and a row `other`.
overlap_where(line, other) ==
    \/ /\ line.end_date = Null
       /\ \/ other.end_date = Null
          \/ SqlGt(other.start_date, line.start_date)
          \/ SqlGt(other.end_date, line.start_date)
    \/ /\ line.end_date # Null
       /\ \/ /\ other.end_date = Null
             /\ SqlLt(other.start_date, line.end_date)
          \/ /\ other.end_date # Null
             /\ \/ /\ SqlGe(other.end_date, line.start_date)
                   /\ SqlLt(other.end_date, line.end_date)
                \/ /\ SqlGe(other.start_date, line.start_date)
                   /\ SqlLt(other.start_date, line.end_date)

\* The join condition of the self-join line x other.
join_condition_NoLot(t, l, o) == SqlNe(l, o)

join_condition(t, l, o) ==
    SqlNe(l, o) /\ SqlEq(t[l].asset_lot, t[o].asset_lot)

\* The rows (line.id, other.id) the query selects for one group of ids.
overlapping(t, sub_ids) ==
    {p \in (DOMAIN t) \X (DOMAIN t) :
        /\ join_condition(t, p[1], p[2])
        /\ t[p[1]].asset_lot # Null
        /\ p[1] \in sub_ids
        /\ overlap_where(t[p[1]], t[p[2]])}

\* trytond.tools.grouped_slice: consecutive groups of at most InMax records.
grouped_slice(lines) ==
    [k \in 1..((Len(lines) + InMax - 1) \div InMax) |->
        SubSeq(lines, (k - 1) * InMax + 1,
               IF k * InMax < Len(lines) THEN k * InMax ELSE Len(lines))]

Pass == <<0, 0>>
NotRun == <<Null, Null>>

\* _validate_dates on table t: the set of possible outcomes.  The first
\* group whose query returns a row raises; LIMIT 1 without ORDER BY returns
\* any one of the selected rows.
RECURSIVE validate_groups(_, _, _)
validate_groups(t, groups, k) ==
    IF k > Len(groups) THEN {Pass}
    ELSE LET found == overlapping(t, Range(groups[k]))
         IN  IF found # {} THEN found
             ELSE validate_groups(t, groups, k + 1)

_validate_dates(t, lines) == validate_groups(t, grouped_slice(lines), 1)

\* Lists of distinct ids over a set.
Lists(S) ==
    {s \in UNION {[1..n -> S] : n \in 0..Cardinality(S)} :
        \A a, b \in 1..Len(s) : a # b => s[a] # s[b]}

\* ----------------------------------------------------- idle components
NoSched == [start_date |-> 0, end_date |-> Null, sub_end_date |-> Null,
            consumption_recurrence |-> {Null}, next_consumption_date |-> Null,
            result |-> Null, consumed |-> FALSE, last_date |-> Null,
            pc |-> "off"]
NoTx == [t \in Txs |-> [pc |-> "off", row |-> [asset_lot |-> Null,
                        start_date |-> 0, end_date |-> Null]]]
NoPending == [op |-> "none", subs |-> {}, lines |-> {}]

\* Lists over exactly the ids of S, each once (the order the ORM hands over).
Orders(S) == {s \in Lists(S) : Range(s) = S}

\* -------------------------------------- _validate_dates on arbitrary input
\* _validate_dates runs inside the writing transaction, after the rows are
\* written and before anything is committed: it can meet any table the
\* field domains admit.
InitV ==
    /\ table \in [LineIds -> LineValues]
    /\ batch = {}
    /\ outcome = NotRun
    /\ state = [s \in SubIds |-> "draft"]
    /\ waiting = NoPending
    /\ tx = NoTx
    /\ lock = 0
    /\ pending = NoPending
    /\ sched = NoSched

ValidateDates(ids) ==
    /\ outcome = NotRun
    /\ batch' = ids
    /\ \E lines \in Orders(ids) :
          outcome' \in _validate_dates(table, lines)
    /\ UNCHANGED <<table, state, waiting, tx, lock, sched, pending>>

NextV == \E ids \in (SUBSET LineIds) \ {{}} : ValidateDates(ids)

SpecV == InitV /\ [][NextV]_vars

WithRow(t, i, v) ==
    [j \in (DOMAIN t) \cup {i} |-> IF j = i THEN v ELSE t[j]]

\* ------------------------------------------------ concurrent transactions
\* Two transactions, transaction t writing line t.  A transaction's writes
\* are invisible to the other one until it commits; the table lock taken by
\* _validate_dates is released when the holder's transaction ends.
View(t) == WithRow(table, t, tx[t].row)

InitConc ==
    /\ table = [i \in {} |-> 0]
    /\ tx = [t \in Txs |-> [pc |-> "idle", row |-> NoTx[t].row]]
    /\ lock = 0
    /\ state = [s \in SubIds |-> "draft"]
    /\ batch = {}
    /\ outcome = NotRun
    /\ waiting = NoPending
    /\ pending = NoPending
    /\ sched = NoSched

TxWrite(t, v) ==
    /\ tx[t].pc = "idle"
    /\ tx' = [tx EXCEPT ![t] = [pc |-> "written", row |-> v]]
    /\ UNCHANGED <<table, state, batch, outcome, waiting, lock, sched, pending>>

\* transaction.database.lock(connection, cls._table)
TxLock(t) ==
    /\ tx[t].pc = "written"
    /\ lock = 0
    /\ lock' = t
    /\ tx' = [tx EXCEPT ![t].pc = "locked"]
    /\ UNCHANGED <<table, state, batch, outcome, waiting, sched, pending>>

\* The query of _validate_dates; raise_user_error rolls the transaction back.
TxValidate(t) ==
    /\ tx[t].pc = "locked"
    /\ \E out \in _validate_dates(View(t), <<t>>) :
          /\ outcome' = out
          /\ tx' = [tx EXCEPT ![t].pc =
                        IF out = Pass THEN "validated" ELSE "aborted"]
          /\ lock' = IF out = Pass THEN lock ELSE 0
    /\ UNCHANGED <<table, state, batch, waiting, sched, pending>>

TxCommit(t) ==
    /\ tx[t].pc = "validated"
    /\ table' = View(t)
    /\ lock' = 0
    /\ tx' = [tx EXCEPT ![t].pc = "committed"]
    /\ UNCHANGED <<state, batch, outcome, waiting, sched, pending>>

NextConc ==
    \/ \E t \in Txs, v \in LineValues : TxWrite(t, v)
    \/ \E t \in Txs : TxLock(t)
    \/ \E t \in Txs : TxValidate(t)
    \/ \E t \in Txs : TxCommit(t)

SpecConc == InitConc /\ [][NextConc]_vars

\* ------------------------------------------------- workflow transitions
\* Subscription.cancel and Subscription.run next to the transactions that
\* write lines.  Each of the two is two steps, before and after its wait for
\* the table lock: it reads the committed rows, the other transactions may
\* commit while it waits, and what it has written is visible to them once
\* it commits.
RequiredError == <<0, 1>>

\* The rows the line transactions write here: the lots 1..NumOpsLots.
OpsValues ==
    {v \in LineValues : v.asset_lot = Null \/ v.asset_lot <= NumOpsLots}

\* Workflow.transition(target): the records the decorated method receives.
transition(subscriptions, from) == {s \in subscriptions : state[s] \in from}

\* The states Subscription.cancel may be left from are declared by
\* sale.subscription itself: with or without running -> canceled.
CancelFrom == {{"draft"}, {"draft", "running"}}

\* Workflow.transition writes the target state either before it calls the
\* decorated method or after the method has returned, depending on the
\* trytond release the module is installed on.
StateWrite == {"before", "after"}

\* subscription_state as the 'required' state of asset_lot reads it while
\* the decorated method runs.
subscription_state(s, target, when) ==
    IF when = "before" THEN target ELSE state[s]

\* Subscription.cancel: sub_lines, the lines whose asset_lot is cleared.
sub_lines(t, subscriptions) ==
    {i \in DOMAIN t : /\ SubscriptionOf(i) \in subscriptions
                      /\ t[i].asset_lot # Null}

\* Subscription.cancel up to the lock of _validate_dates: sub_lines is read,
\* asset_lot = None is written on them and the written field is validated.
\* Clearing an asset_lot that is required (asset_lot_required comes from the
\* service) is refused while the subscription reads as running, and the
\* cancel aborts.  With no subscription left by the transition nothing is
\* written.
CancelBegin(S, from, when, required) ==
    LET subscriptions == transition(S, from)
        cleared == sub_lines(table, subscriptions)
        refused == {i \in cleared \cap required :
                       subscription_state(SubscriptionOf(i), "canceled", when)
                           = "running"}
    IN  /\ S # {}
        /\ pending.op = "none"
        /\ IF subscriptions = {}
           THEN /\ outcome' = Pass
                /\ UNCHANGED pending
           ELSE IF refused # {}
           THEN /\ outcome' = RequiredError
                /\ UNCHANGED pending
           ELSE /\ pending' = [op |-> "cancel", subs |-> subscriptions,
                               lines |-> cleared]
                /\ UNCHANGED outcome
        /\ UNCHANGED <<table, state, batch, tx, lock, waiting, sched>>

\* Subscription.cancel from the lock on: the lock is taken once it is free
\* and held to the end of the transaction, so the query of _validate_dates
\* on the written lines, super().cancel, the state of the workflow and the
\* commit meet no commit of another transaction in between.
CancelFinish ==
    LET written == [i \in DOMAIN table |->
                       IF i \in pending.lines
                       THEN [table[i] EXCEPT !.asset_lot = Null]
                       ELSE table[i]]
    IN  /\ pending.op = "cancel"
        /\ lock = 0
        /\ \E lines \in Orders(pending.lines) :
             \E out \in _validate_dates(written, lines) :
                /\ outcome' = out
                /\ table' = IF out = Pass THEN written ELSE table
                /\ state' = IF out = Pass
                            THEN [s \in SubIds |->
                                    IF s \in pending.subs THEN "canceled"
                                    ELSE state[s]]
                            ELSE state
        /\ pending' = NoPending
        /\ UNCHANGED <<batch, tx, lock, waiting, sched>>

\* Subscription.run up to the lock of _validate_dates: the lines of the
\* subscriptions are read and Line._validate(lines, ['asset_lot']) checks
\* the 'required' state of asset_lot on them (asset_lot_required comes from
\* the service); a required asset_lot that is missing while the subscription
\* reads as running aborts the run.  With no subscription left by the
\* transition nothing is written.
RunBegin(S, when, required) ==
    LET subscriptions == transition(S, {"draft"})
        lines == {i \in DOMAIN table : SubscriptionOf(i) \in subscriptions}
        missing == {i \in lines \cap required :
                       /\ table[i].asset_lot = Null
                       /\ subscription_state(SubscriptionOf(i), "running",
                                             when) = "running"}
    IN  /\ S # {}
        /\ waiting.op = "none"
        /\ IF subscriptions = {}
           THEN /\ outcome' = Pass
                /\ UNCHANGED waiting
           ELSE IF missing # {}
           THEN /\ outcome' = RequiredError
                /\ UNCHANGED waiting
           ELSE /\ waiting' = [op |-> "run", subs |-> subscriptions,
                               lines |-> lines]
                /\ UNCHANGED outcome
        /\ UNCHANGED <<table, state, batch, tx, lock, pending, sched>>

\* Subscription.run from the lock on: the lock is taken once it is free and
\* held to the end of the transaction; the query of _validate_dates on the
\* lines read before the wait, as the table is now, the state of the
\* workflow, and the commit.
RunFinish ==
    /\ waiting.op = "run"
    /\ lock = 0
    /\ \E lines \in Orders(waiting.lines) :
         \E out \in _validate_dates(table, lines) :
            /\ outcome' = out
            /\ state' = IF out = Pass
                        THEN [s \in SubIds |->
                                IF s \in waiting.subs THEN "running"
                                ELSE state[s]]
                        ELSE state
    /\ waiting' = NoPending
    /\ UNCHANGED <<table, batch, tx, lock, pending, sched>>

NextOps ==
    \/ \E t \in Txs, v \in OpsValues : TxWrite(t, v)
    \/ \E t \in Txs : TxLock(t)
    \/ \E t \in Txs : TxValidate(t)
    \/ \E t \in Txs : TxCommit(t)
    \/ \E S \in SUBSET SubIds, from \in CancelFrom, when \in StateWrite,
          required \in SUBSET LineIds : CancelBegin(S, from, when, required)
    \/ CancelFinish
    \/ \E S \in SUBSET SubIds, when \in StateWrite,
          required \in SUBSET LineIds : RunBegin(S, when, required)
    \/ RunFinish

SpecOps == InitConc /\ [][NextOps]_vars

\* ------------------------------------------------- consumption scheduling
\* A recurrence rule is the set of day offsets, from the dtstart it is
\* given, at which it occurs (at least once); NoRule is the empty Many2One.
NoRule == {Null}
Error == 0 - 2
Rules == (SUBSET (0..MaxOffset)) \ {{}}

\* consumption_recurrence.rruleset(self.start_date)
rruleset(rule, dtstart) == {dtstart + o : o \in rule}

\* rruleset.after(dt, inc): the first occurrence after dt (or at dt, with
\* inc), None when there is none.
after(occurrences, dt, inc) ==
    LET later == {d \in occurrences : d > dt \/ (inc /\ d = dt)}
    IN  IF later = {} THEN Null ELSE Min(later)

inc_Always(l) == TRUE

\* inc = (self.start_date == date) and not self.next_consumption_date
inc(l) ==
    LET date == IF l.next_consumption_date # Null
                THEN l.next_consumption_date ELSE l.start_date
    IN  l.start_date = date /\ l.next_consumption_date = Null

exceeds_LineOnly(l, next_date) ==
    l.end_date # Null /\ next_date > l.end_date

\* for end_date in [self.end_date, self.subscription.end_date]: ...
exceeds(l, next_date) ==
    \E end_date \in {l.end_date, l.sub_end_date} :
        end_date # Null /\ next_date > end_date

\* compute_next_consumption_date; Error is the AttributeError of
\* None.date() when after() finds no occurrence.
compute_next_consumption_date(l) ==
    IF l.consumption_recurrence = NoRule THEN Null
    ELSE LET date == IF l.next_consumption_date # Null
                     THEN l.next_consumption_date ELSE l.start_date
             set == rruleset(l.consumption_recurrence, l.start_date)
             next_date == after(set, date, inc(l))
         IN  IF next_date = Null THEN Error
             ELSE IF exceeds(l, next_date) THEN Null
             ELSE next_date

InitS ==
    /\ sched \in {l \in [start_date : Dates,
                         end_date : Dates \cup {Null},
                         sub_end_date : Dates \cup {Null},
                         consumption_recurrence : Rules \cup {NoRule},
                         next_consumption_date : {Null},
                         result : {Null}, consumed : {FALSE},
                         last_date : {Null}, pc : {"idle"}] :
                    /\ l.end_date # Null => l.end_date >= l.start_date
                    /\ (l.end_date # Null /\ l.sub_end_date # Null)
                          => l.end_date <= l.sub_end_date}
    /\ table = [i \in {} |-> 0]
    /\ state = [s \in SubIds |-> "draft"]
    /\ batch = {}
    /\ outcome = NotRun
    /\ waiting = NoPending
    /\ tx = NoTx
    /\ lock = 0
    /\ pending = NoPending

Compute ==
    /\ sched.pc = "idle"
    /\ sched' = [sched EXCEPT !.result = compute_next_consumption_date(sched),
                              !.pc = "computed"]
    /\ UNCHANGED <<table, state, batch, outcome, waiting, tx, lock, pending>>

\* The caller stores the returned date on the line; an exception leaves the
\* line as it was.  last_date keeps the latest consumption date stored so
\* far (history: an exhausted result does not erase it).
Persist ==
    /\ sched.pc = "computed"
    /\ sched' = IF sched.result = Error
                THEN [sched EXCEPT !.pc = "idle"]
                ELSE [sched EXCEPT !.next_consumption_date = sched.result,
                                   !.consumed = sched.consumed
                                                \/ sched.result # Null,
                                   !.last_date = IF sched.result # Null
                                                 THEN sched.result
                                                 ELSE sched.last_date,
                                   !.pc = "idle"]
    /\ UNCHANGED <<table, state, batch, outcome, waiting, tx, lock, pending>>

NextS == Compute \/ Persist

SpecS == InitS /\ [][NextS]_vars

\* ================================================================ claims
\* Half-open intervals [start_date, end_date), end_date = None unbounded:
\* [s1,e1) and [s2,e2) intersect iff s1 < e2 (or e2 unbounded) and
\* s2 < e1 (or e1 unbounded).
Intersect(a, b) ==
    /\ (b.end_date = Null \/ a.start_date < b.end_date)
    /\ (a.end_date = Null \/ b.start_date < a.end_date)

\* The same, between intervals that hold at least one day: a line with
\* end_date = start_date occupies its asset at no time.
NonEmpty(a) == a.end_date = Null \/ a.start_date < a.end_date
Overlap(a, b) == NonEmpty(a) /\ NonEmpty(b) /\ Intersect(a, b)

SameLot(a, b) == a.asset_lot # Null /\ a.asset_lot = b.asset_lot

Exclusive(t) ==
    \A i, j \in DOMAIN t :
        (i # j /\ SameLot(t[i], t[j])) => ~Overlap(t[i], t[j])

Raised(out) == out # NotRun /\ out # Pass /\ out # RequiredError

\* C1 (SpecConc): in every committed state of the line table no two distinct
\* lines with the same non-null asset_lot have intersecting half-open
\* intervals, every write having been validated by _validate_dates.
C1_Exclusivity == Exclusive(table)

\* C2 (SpecV): whenever a line A of the validated batch and another line B of
\* the table share a non-null asset_lot and their intervals intersect
\* (A.start_date < B.end_date or B open-ended, and B.start_date < A.end_date
\* or A open-ended; both lines holding at least one day),
\* _validate_dates raises asset_overlapping_dates.
C2_OverlapDetectionComplete ==
    (/\ outcome # NotRun
     /\ \E a \in batch, b \in DOMAIN table :
           a # b /\ SameLot(table[a], table[b])
                 /\ Overlap(table[a], table[b]))
    => Raised(outcome)

\* C3 (SpecV): two lines A and B alone on an asset with
\* A.start_date < A.end_date = B.start_date never conflict, whether the batch
\* holds A, B or both.
C3_BoundaryNonOverlap ==
    (/\ outcome # NotRun
     /\ \E a, b \in DOMAIN table :
           /\ a # b
           /\ SameLot(table[a], table[b])
           /\ table[a].end_date # Null
           /\ table[a].start_date < table[a].end_date
           /\ table[a].end_date = table[b].start_date
           /\ \A c \in DOMAIN table \ {a, b} :
                 ~SameLot(table[a], table[c])
           /\ batch \subseteq {a, b})
    => outcome = Pass

\* C4 (SpecV): _validate_dates never reports a pair of lines whose asset_lot
\* differ or one of which has no asset_lot, and a batch whose lines all have
\* asset_lot = None always passes.
C4_NoFalsePositiveAcrossAssets ==
    /\ Raised(outcome) =>
          /\ outcome[1] \in batch
          /\ outcome[2] \in DOMAIN table
          /\ SameLot(table[outcome[1]], table[outcome[2]])
    /\ (outcome # NotRun /\ \A i \in batch : table[i].asset_lot = Null)
          => outcome = Pass

\* A validation that passed although a line of the batch intersects a line
\* holding another asset.
C4_Witness ==
    /\ outcome = Pass
    /\ \E a \in batch, b \in DOMAIN table :
          /\ a # b
          /\ table[a].asset_lot # Null
          /\ table[b].asset_lot # Null
          /\ table[a].asset_lot # table[b].asset_lot
          /\ table[a].start_date < table[b].start_date
          /\ Overlap(table[a], table[b])

\* C5 (SpecConc): the table lock serializes the two validations, and of two
\* transactions writing lines on the same asset over intersecting intervals
\* at most one commits: no committed table holds the overlapping pair.
C5_SerializedValidation ==
    /\ \A t \in Txs : tx[t].pc \in {"locked", "validated"} => lock = t
    /\ \A t1, t2 \in Txs :
          (/\ t1 # t2
           /\ tx[t1].pc = "committed"
           /\ tx[t2].pc = "committed"
           /\ SameLot(tx[t1].row, tx[t2].row))
          => ~Overlap(tx[t1].row, tx[t2].row)
    /\ Exclusive(table)

Bounded(l, d) ==
    /\ l.end_date # Null => d <= l.end_date
    /\ l.sub_end_date # Null => d <= l.sub_end_date

IsDate(d) == d # Null /\ d # Error

\* d is an occurrence the search from the line's anchor may return: at or
\* after start_date on the first search, after next_consumption_date later.
Later(l, d) ==
    /\ l.consumption_recurrence # NoRule
    /\ d \in rruleset(l.consumption_recurrence, l.start_date)
    /\ IF l.next_consumption_date = Null
       THEN d >= l.start_date
       ELSE d > l.next_consumption_date

\* C6 (SpecS): a date returned by compute_next_consumption_date exceeds
\* neither the line's end_date nor the subscription's end_date; the result is
\* None as soon as the next occurrence exceeds either of them; and a
\* persisted next_consumption_date, after any number of steps, exceeds
\* neither.
C6_RecurrenceBounded ==
    /\ (sched.pc = "computed" /\ IsDate(sched.result))
          => Bounded(sched, sched.result)
    /\ sched.pc = "computed" =>
          \A d \in Dates \cup {x + MaxOffset : x \in Dates} :
             (/\ Later(sched, d)
              /\ \A e \in 0..d : Later(sched, e) => e = d
              /\ ~Bounded(sched, d))
             => sched.result = Null
    /\ sched.next_consumption_date # Null
          => Bounded(sched, sched.next_consumption_date)

\* The line's own end_date exhausts a series whose next occurrence the
\* subscription's end_date would still allow.
C6_Witness ==
    /\ sched.pc = "computed"
    /\ sched.result = Null
    /\ sched.next_consumption_date # Null
    /\ sched.end_date # Null
    /\ sched.sub_end_date # Null
    /\ \E d \in rruleset(sched.consumption_recurrence, sched.start_date) :
          /\ d > sched.next_consumption_date
          /\ d > sched.end_date
          /\ d <= sched.sub_end_date

\* No occurrence of the rule at / after the anchor of the search.
SeriesEnded(l) ==
    /\ l.consumption_recurrence # NoRule
    /\ \A d \in rruleset(l.consumption_recurrence, l.start_date) :
          ~Later(l, d)

\* C7 (SpecS): when the rule has no occurrence at / after the anchor,
\* compute_next_consumption_date returns None (exhausted), not an error.
C7_TerminatedSeriesExhausted ==
    (sched.pc = "computed" /\ SeriesEnded(sched)) => sched.result = Null

\* C8 (SpecS), as stated: without a next_consumption_date the search
\* includes start_date, so a rule occurring on start_date returns start_date;
\* with a next_consumption_date the returned date is strictly later than it;
\* and every returned date, which is the next one stored, is strictly later
\* than the consumption dates stored before.
C8_InclusivityStated ==
    sched.pc = "computed" =>
       /\ (/\ sched.next_consumption_date = Null
           /\ sched.consumption_recurrence # NoRule
           /\ 0 \in sched.consumption_recurrence)
          => sched.result = sched.start_date
       /\ (sched.next_consumption_date # Null /\ IsDate(sched.result))
          => sched.result > sched.next_consumption_date
       /\ (sched.last_date # Null /\ IsDate(sched.result))
          => sched.result > sched.last_date

\* C8 (SpecS), amended: without a next_consumption_date a rule occurring on
\* start_date returns start_date when start_date exceeds neither end date,
\* and None when it does; with a next_consumption_date the returned date is
\* strictly later than it, and the stored next_consumption_date is the
\* latest date stored; so the stored dates increase strictly for as long as
\* next_consumption_date stays set, and a date returned after None was
\* stored is searched from start_date again and may repeat an earlier one.
C8_Inclusivity ==
    /\ sched.next_consumption_date # Null
          => sched.next_consumption_date = sched.last_date
    /\ sched.pc = "computed" =>
          /\ (/\ sched.next_consumption_date = Null
              /\ sched.consumption_recurrence # NoRule
              /\ 0 \in sched.consumption_recurrence)
             => sched.result = IF Bounded(sched, sched.start_date)
                               THEN sched.start_date ELSE Null
          /\ (sched.next_consumption_date # Null /\ IsDate(sched.result))
             => sched.result > sched.next_consumption_date
          /\ (sched.last_date # Null /\ IsDate(sched.result))
             => \/ sched.result > sched.last_date
                \/ /\ sched.next_consumption_date = Null
                   /\ sched.result >= sched.start_date

\* start_date was returned first and persisted; the next search, anchored on
\* next_consumption_date = start_date, returned a later date.
C8_Witness ==
    /\ sched.pc = "computed"
    /\ sched.consumed
    /\ sched.last_date = sched.start_date
    /\ sched.next_consumption_date = sched.start_date
    /\ IsDate(sched.result)
    /\ sched.result > sched.start_date

\* C9 (SpecS): once exhausted has been returned and persisted for a line that
\* had produced a consumption date, every later call returns exhausted too.
C9_ExhaustedTerminal ==
    (/\ sched.pc = "computed"
     /\ sched.consumed
     /\ sched.next_consumption_date = Null)
    => sched.result = Null

\* C10 (SpecOps): when Subscription.cancel completes, its clearing write
\* has passed validation, every line of the canceled subscriptions is without
\* asset_lot, the other lines are as they were, and afterwards no line of
\* another subscription reserving a released asset, over any interval, is
\* reported in conflict with a line of a canceled subscription.
C10_CancelReleasesAssets ==
    [][(pending.op = "cancel" /\ pending'.op = "none") =>
          /\ outcome' = Pass
          /\ DOMAIN table' = DOMAIN table
          /\ \A s \in pending.subs : state'[s] = "canceled"
          /\ \A i \in DOMAIN table' :
                IF SubscriptionOf(i) \in pending.subs
                THEN table'[i] = [table[i] EXCEPT !.asset_lot = Null]
                ELSE table'[i] = table[i]
          /\ \A i \in pending.lines, j \in LineIds, v \in LineValues :
                (/\ SubscriptionOf(j) \notin pending.subs
                 /\ v.asset_lot = table[i].asset_lot)
                => \A out \in _validate_dates(WithRow(table', j, v), <<j>>) :
                      \/ out = Pass
                      \/ SubscriptionOf(out[2]) \notin pending.subs]_vars

====
